---- MODULE Spec2Model ----
(***************************************************************************)
(* find-frustration: cycle analysis of a weighted graph.                   *)
(*                                                                         *)
(* Vertex names are strings in the program and are only ever compared for  *)
(* order; the model names vertices 1, 2, 3, ... with the order of the      *)
(* naturals standing for the order of the strings.  An edge is the pair    *)
(* <<u, v>> with u < v, the form the readers of input.go store.            *)
(*                                                                         *)
(* Go leaves the iteration order of a map open.  A loop over a map is a    *)
(* choice of any remaining key; a list that was filled by ranging over a   *)
(* set is kept as that set, and its order is drawn where it is read.       *)
(* Sets of edge sets are compared by content: the sets the program builds  *)
(* are pairwise different in content, so content and identity agree.       *)
(***************************************************************************)
EXTENDS Bags, FiniteSets, Integers, Sequences, TLC

VARIABLES
    pc,         \* position of the run
    g,          \* Graph: [Vs: vertex -> weight, Es: edge -> weight]
    allCycs,    \* --all-cycles
    remaining,  \* spanningTree: edges of g.Es the range loop has not yet produced
    vSet,       \* spanningTree: vertex -> representative of its disjoint set
    tEdges,     \* spanningTree: tree edges (read only by neighbors, as a set)
    ntEdges,    \* spanningTree: non-tree edges, in discovery order
    bPath,      \* main: basic cycles as paths
    bcs,        \* main: basic cycles as edge lists
    phi,        \* elementaryCycles: basic cycles as edge sets
    i,          \* elementaryCycles: loop index (0-based, as in the code)
    s, q, r, rs,\* elementaryCycles: the sets of Gibbs' algorithm
    move,       \* elementaryCycles: sets to move from r to rs
    out,        \* lines written to w (a bag: order within the report is open)
    notified,   \* lines printed by notify (standard error)
    exitCode,   \* -1 while running, else the exit status
    cyc,        \* codec: the cycle handed to pathToEdges
    es,         \* codec: the edge list
    path,       \* codec / classifier: a path
    frust,      \* classifier: isFrustrated(path)
    frustRev,   \* classifier: isFrustrated(reverse(path))
    ps,         \* aggregator: the analyzed cycles, as paths
    isFrust,    \* aggregator: their verdicts
    rSlice,     \* elementaryCycles: r.ToSlice(), the list the goroutines range over
    wj,         \* pruning goroutine w -> the index of rSlice it comes to next
    wg          \* elementaryCycles: the counter of the sync.WaitGroup

vars == <<pc, g, allCycs, remaining, vSet, tEdges, ntEdges, bPath, bcs, phi, i,
          s, q, r, rs, move, out, notified, exitCode, cyc, es, path, frust,
          frustRev, ps, isFrust, rSlice, wj, wg>>

----------------------------------------------------------------------------
(* Bounds *)

NumVertices == 5      \* vertices of a graph in SpecCycles, of a cycle in SpecCodec
MaxEdges == 7         \* edges of a graph in SpecCycles
RunVertices == 4      \* vertices of a graph in Spec
RunMaxEdges == 5      \* edges of a graph in Spec
MaxPathLen == 3       \* length of a classified cycle in SpecClassify
MaxCycles == 3        \* number of tallied cycles in SpecTally
DecodeVertices == 4   \* vertices under an edge list in SpecDecode
MaxListLen == 4       \* edges of an edge list in SpecDecode
MaxWorkers == 3       \* pruning goroutines of one round in SpecPrune (PruneGraphs needs three)

----------------------------------------------------------------------------
(* Generic helpers *)

Min(S) == CHOOSE x \in S : \A y \in S : x <= y

Range(f) == {f[x] : x \in DOMAIN f}

Reverse(sq) == [k \in 1..Len(sq) |-> sq[Len(sq) + 1 - k]]

RECURSIVE Perms(_)
\* every listing of the finite set S
Perms(S) ==
    IF S = {} THEN {<<>>}
    ELSE UNION {{<<x>> \o l : l \in Perms(S \ {x})} : x \in S}

RECURSIVE Product(_)
\* every list that takes its k-th element from the k-th set of choices
Product(choices) ==
    IF choices = <<>> THEN {<<>>}
    ELSE {<<x>> \o l : x \in Head(choices), l \in Product(Tail(choices))}

RECURSIVE SetToSeq(_)
SetToSeq(S) ==
    IF S = {} THEN <<>>
    ELSE LET x == CHOOSE y \in S : TRUE IN <<x>> \o SetToSeq(S \ {x})

Edge(u, v) == IF u > v THEN <<v, u>> ELSE <<u, v>>

VerticesOf(E) == UNION {{e[1], e[2]} : e \in E}

Degree(E, v) == Cardinality({e \in E : e[1] = v}) + Cardinality({e \in E : e[2] = v})

----------------------------------------------------------------------------
(* Graphs *)

AllPairs(n) == {<<u, v>> \in (1..n) \X (1..n) : u < v}

\* Names are opaque, so of the graphs that differ only in naming the model
\* takes those whose degrees do not increase along the names.
DegSorted(n, E) == \A u \in 1..n : \A v \in 1..n : u < v => Degree(E, u) >= Degree(E, v)

EdgeSets(n, maxE) == {E \in SUBSET AllPairs(n) : Cardinality(E) <= maxE /\ DegSorted(n, E)}

\* the graph of the vertices 1..n without external field and the edges E, all
\* of weight w
MkGraph(n, E, w) ==
    [Vs |-> [v \in 1..n |-> 0], Es |-> [e \in E |-> w]]

----------------------------------------------------------------------------
(* Partition Builder: Graph.spanningTree *)

\* u.Find(): the representative of the disjoint set that holds x
Find(vs, x) == vs[x]

\* Union that moves a alone and leaves the rest of its set behind
UnionOne(vs, a, b) == [vs EXCEPT ![a] = vs[b]]

\* disjoint.Union(u, v): one set out of the sets of a and b
Union(vs, a, b) ==
    LET m == Min({vs[a], vs[b]})
    IN  [x \in DOMAIN vs |-> IF vs[x] \in {vs[a], vs[b]} THEN m ELSE vs[x]]

\* one round of "for e := range g.Es"
SpanningTreeStep ==
    /\ pc = "spanningTree"
    /\ \E e \in remaining :
        /\ remaining' = remaining \ {e}
        /\ IF Find(vSet, e[1]) = Find(vSet, e[2])
           THEN /\ ntEdges' = Append(ntEdges, e)
                /\ UNCHANGED <<tEdges, vSet>>
           ELSE /\ vSet' = Union(vSet, e[1], e[2])
                /\ tEdges' = tEdges \cup {e}
                /\ UNCHANGED ntEdges
    /\ UNCHANGED <<pc, g, allCycs, bPath, bcs, phi, i, s, q, r, rs, move, out,
                   notified, exitCode, cyc, es, path, frust, frustRev, ps, isFrust,
                   rSlice, wj, wg>>

----------------------------------------------------------------------------
(* Fundamental Cycle Extractor: neighbors, findPath, baseCyclePaths *)

\* a vertex without an entry reads as the empty (nil) map
neighbors(V, E) ==
    [v \in V |-> {e[2] : e \in {x \in E : x[1] = v}} \cup {e[1] : e \in {x \in E : x[2] = v}}]

RECURSIVE dfs(_, _, _, _)
\* the paths the inner dfs can return from x towards d, over every order in
\* which it can range over ns[x]; the empty set stands for nil.  visited is
\* restored on every dead end, so it is d0 plus the vertices on the way to x.
dfs(ns, x, d, visited) ==
    IF d \in ns[x] THEN {<<d>>}
    ELSE UNION {{Append(pth, m) : pth \in dfs(ns, m, d, visited \cup {m})}
                : m \in ns[x] \ visited}

\* a search from the source, whose result comes back in reverse order
findPathForward(ns, src, d) ==
    LET found == dfs(ns, src, d, {src})
    IN  IF found = {} THEN {<<d>>} ELSE {Append(pth, d) : pth \in found}

\* append(dfs(d, s), d): the results findPath can return
findPath(ns, src, d) ==
    LET found == dfs(ns, d, src, {d})
    IN  IF found = {} THEN {<<d>>} ELSE {Append(pth, d) : pth \in found}

\* the lists baseCyclePaths can return
baseCyclePaths(V, tE, ntE) ==
    LET ns == neighbors(V, tE)
    IN  Product([k \in 1..Len(ntE) |-> findPath(ns, ntE[k][1], ntE[k][2])])

----------------------------------------------------------------------------
(* Cycle/Edge Codec: pathToEdges, edgesToPath *)

pathToEdges(c) ==
    [k \in 1..Len(c) |-> Edge(c[k], c[(k % Len(c)) + 1])]

RECURSIVE abutsOf(_, _)
\* near[v] after the first loop of edgesToPath: the vertices v abuts, in the
\* order the edge list names them
abutsOf(el, v) ==
    IF el = <<>> THEN <<>>
    ELSE LET e == Head(el)
         IN  (IF e[1] = v THEN <<e[2]>> ELSE <<>>) \o
             (IF e[2] = v THEN <<e[1]>> ELSE <<>>) \o abutsOf(Tail(el), v)

nearOf(el) == [v \in VerticesOf(Range(el)) |-> abutsOf(el, v)]

Panic == [panic |-> TRUE, p |-> <<>>]

\* a step that always takes abuts[0]
nextHopFirst(abuts, left) == 1

\* the neighbor the chain steps to: abuts[0] if it is still in near, else abuts[1]
nextHop(abuts, left) == IF abuts[1] \in left THEN 1 ELSE 2

RECURSIVE chain(_, _, _)
\* the second loop of edgesToPath; left is the key set of near.  Reading
\* abuts[0] of a missing entry, or abuts[1] of a one-element list, is an
\* index out of range.
chain(near, left, p) ==
    IF Cardinality(left) <= 1 THEN [panic |-> FALSE, p |-> p]
    ELSE LET last == p[Len(p)]
         IN  IF last \notin left THEN Panic
             ELSE LET abuts == near[last]
                      k == nextHop(abuts, left \ {last})
                  IN  IF k > Len(abuts) THEN Panic
                      ELSE chain(near, left \ {last}, Append(p, abuts[k]))

\* a walk that starts at the first vertex of the first edge
startVertexFirst(el) == el[1][1]

\* minV: the smallest vertex name of the edge list
startVertex(el) == Min(VerticesOf(Range(el)))

edgesToPath(el) ==
    IF el = <<>> THEN Panic
    ELSE LET near == nearOf(el)
         IN  chain(near, DOMAIN near, <<startVertex(el)>>)

----------------------------------------------------------------------------
(* Elementary Cycle Enumerator: Graph.elementaryCycles *)

SymmetricDifference(a, b) == (a \ b) \cup (b \ a)

IsProperSubset(u, v) == u \subseteq v /\ u # v

\* the list of edge lists as a list of edge sets
toPhi(b) == [k \in 1..Len(b) |-> Range(b[k])]

\* the symmetric differences that go to r: those of a t that shares an edge
\* with the current basic cycle
diffsR(qq, f) == {SymmetricDifference(t, f) : t \in {x \in qq : x \cap f # {}}}

\* the symmetric differences that go to rs: those of a t disjoint from it
diffsRs(qq, f) == {SymmetricDifference(t, f) : t \in {x \in qq : x \cap f = {}}}

\* a pruning that finds no superset
supersetsNone(rr) == {}

\* what the goroutines have added to move once wg.Wait returns
supersets(rr) == {v \in rr : \E u \in rr : IsProperSubset(u, v)}

\* s without the s.Add(phi[i])
copySNoAdd(ss, rr, f) == ss \cup rr

\* s after "s = s.Union(r); s.Add(phi[i])"
copyS(ss, rr, f) == (ss \cup rr) \cup {f}

\* q without the Union(rs)
copyQNoRs(qq, rr, rrs, f) == (qq \cup rr) \cup {f}

\* q after "q = q.Union(r).Union(rs); q.Add(phi[i])"
copyQ(qq, rr, rrs, f) == ((qq \cup rr) \cup rrs) \cup {f}

\* lines 199-212; phi[0] of an empty list is an index out of range
ECInit ==
    /\ pc = "elementaryCycles"
    /\ phi' = toPhi(bcs)
    /\ IF Len(bcs) = 0
       THEN /\ pc' = "panic"
            /\ exitCode' = 2
            /\ UNCHANGED <<s, q, r, rs, i>>
       ELSE /\ s' = {phi'[1]}
            /\ q' = {phi'[1]}
            /\ r' = {}
            /\ rs' = {}
            /\ i' = 1
            /\ pc' = "ecLoop"
            /\ UNCHANGED exitCode
    /\ UNCHANGED <<g, allCycs, remaining, vSet, tEdges, ntEdges, bPath, bcs, move,
                   out, notified, cyc, es, path, frust, frustRev, ps, isFrust,
                   rSlice, wj, wg>>

\* lines 218-226: the symmetric difference of each cycle in q with phi[i]
ECDiff ==
    /\ pc = "ecLoop"
    /\ i < Len(phi)
    /\ r' = r \cup diffsR(q, phi[i + 1])
    /\ rs' = rs \cup diffsRs(q, phi[i + 1])
    /\ pc' = "ecPrune"
    /\ UNCHANGED <<g, allCycs, remaining, vSet, tEdges, ntEdges, bPath, bcs, phi, i,
                   s, q, move, out, notified, exitCode, cyc, es, path, frust,
                   frustRev, ps, isFrust,
                   rSlice, wj, wg>>

\* lines 230-247: the goroutines fill move; after wg.Wait it is taken out of
\* r and added to rs
ECPrune ==
    /\ pc = "ecPrune"
    /\ move' = supersets(r)
    /\ r' = r \ move'
    /\ rs' = rs \cup move'
    /\ pc' = "ecCopy"
    /\ UNCHANGED <<g, allCycs, remaining, vSet, tEdges, ntEdges, bPath, bcs, phi, i,
                   s, q, out, notified, exitCode, cyc, es, path, frust, frustRev,
                   ps, isFrust,
                   rSlice, wj, wg>>

\* lines 251-256 and the i++ of the loop; rSlice and the goroutines are
\* local to the round that ends here
ECCopy ==
    /\ pc = "ecCopy"
    /\ s' = copyS(s, r, phi[i + 1])
    /\ q' = copyQ(q, r, rs, phi[i + 1])
    /\ r' = {}
    /\ rs' = {}
    /\ i' = i + 1
    /\ rSlice' = <<>>
    /\ wj' = <<>>
    /\ pc' = "ecLoop"
    /\ UNCHANGED <<g, allCycs, remaining, vSet, tEdges, ntEdges, bPath, bcs, phi,
                   move, out, notified, exitCode, cyc, es, path, frust, frustRev,
                   ps, isFrust, wg>>

\* The pruning goroutines one by one.  move is a mapset.NewSet(), the
\* thread-safe kind: an Add is one step under the lock of the set.  rSlice is
\* filled before the first goroutine starts and only read afterwards.

\* a test that also takes a set for a superset of itself
workerMovesSubset(u, v) == IF u \subseteq v THEN {v} ELSE {}

\* "if u.IsProperSubset(v) { move.Add(v) }": what one round of the loop of
\* goroutine u adds to move
workerMoves(u, v) == IF IsProperSubset(u, v) THEN {v} ELSE {}

\* a Wait that returns while one goroutine is still out
waitReturnsEarly(n) == n <= 1

\* wg.Wait() returns once the counter is zero
waitReturns(n) == n = 0

\* lines 230-244: move, rSlice, and one wg.Add(1) and one goroutine per
\* element of rSlice
ECFork ==
    /\ pc = "ecPrune"
    /\ Cardinality(r) <= MaxWorkers
    /\ move' = {}
    /\ \E sl \in Perms(r) :
        /\ rSlice' = sl
        /\ wj' = [w \in 1..Len(sl) |-> 1]
        /\ wg' = Len(sl)
    /\ pc' = "ecWait"
    /\ UNCHANGED <<g, allCycs, remaining, vSet, tEdges, ntEdges, bPath, bcs, phi, i,
                   s, q, r, rs, out, notified, exitCode, cyc, es, path, frust,
                   frustRev, ps, isFrust>>

\* lines 237-242: one round of "for _, vi := range rSlice" in goroutine w
WorkerStep(w) ==
    /\ wj[w] <= Len(rSlice)
    /\ move' = move \cup workerMoves(rSlice[w], rSlice[wj[w]])
    /\ wj' = [wj EXCEPT ![w] = @ + 1]
    /\ UNCHANGED <<pc, g, allCycs, remaining, vSet, tEdges, ntEdges, bPath, bcs, phi,
                   i, s, q, r, rs, out, notified, exitCode, cyc, es, path, frust,
                   frustRev, ps, isFrust, rSlice, wg>>

\* line 236: the deferred wg.Done() of goroutine w, after its loop
WorkerDone(w) ==
    /\ wj[w] = Len(rSlice) + 1
    /\ wg' = wg - 1
    /\ wj' = [wj EXCEPT ![w] = @ + 1]
    /\ UNCHANGED <<pc, g, allCycs, remaining, vSet, tEdges, ntEdges, bPath, bcs, phi,
                   i, s, q, r, rs, move, out, notified, exitCode, cyc, es, path,
                   frust, frustRev, ps, isFrust, rSlice>>

Worker == \E w \in DOMAIN wj : WorkerStep(w) \/ WorkerDone(w)

\* lines 245-247: wg.Wait() returns, then move leaves r and joins rs
ECWait ==
    /\ pc = "ecWait"
    /\ waitReturns(wg)
    /\ r' = r \ move
    /\ rs' = rs \cup move
    /\ pc' = "ecCopy"
    /\ UNCHANGED <<g, allCycs, remaining, vSet, tEdges, ntEdges, bPath, bcs, phi, i,
                   s, q, move, out, notified, exitCode, cyc, es, path, frust,
                   frustRev, ps, isFrust, rSlice, wj, wg>>

----------------------------------------------------------------------------
(* Frustration Classifier: Graph.isFrustrated *)

Abs(x) == IF x < 0 THEN -x ELSE x

\* g.Es[e]: a missing key reads as 0
coupler(gr, e) == IF e \in DOMAIN gr.Es THEN gr.Es[e] ELSE 0

\* g.Vs[v]: a missing key reads as 0
field(gr, v) == IF v \in DOMAIN gr.Vs THEN gr.Vs[v] ELSE 0

\* the two vertices of step k in walking order
hopAsWalked(p, k) == <<p[k], p[(k % Len(p)) + 1]>>

\* the two vertices u, v of step k of the walk, smaller name first
hop(p, k) ==
    LET u == p[k]
        v == p[(k % Len(p)) + 1]
    IN  IF u > v THEN <<v, u>> ELSE <<u, v>>

\* fields that already dominate a coupler of their own strength
fieldsDominateOrTie(cs, e0, e1) == Abs(e0) >= Abs(cs) /\ Abs(e1) >= Abs(cs)

\* both external fields are stronger than the coupler
fieldsDominate(cs, e0, e1) == Abs(e0) > Abs(cs) /\ Abs(e1) > Abs(cs)

\* the two cases of the switch that count the coupling
fieldsOppose(e0, e1) == (e0 > 0 /\ e1 < 0) \/ (e0 < 0 /\ e1 > 0)

couplerAfm(cs) == cs > 0

\* whether step k of the walk does afm++
afmStep(gr, p, k) ==
    LET e  == hop(p, k)
        cs == coupler(gr, e)
        e0 == field(gr, e[1])
        e1 == field(gr, e[2])
    IN  IF fieldsDominate(cs, e0, e1) THEN fieldsOppose(e0, e1) ELSE couplerAfm(cs)

RECURSIVE afmCount(_, _, _)
\* afm after the first k steps
afmCount(gr, p, k) ==
    IF k = 0 THEN 0
    ELSE afmCount(gr, p, k - 1) + (IF afmStep(gr, p, k) THEN 1 ELSE 0)

isFrustrated(gr, p) == afmCount(gr, p, Len(p)) % 2 = 1

----------------------------------------------------------------------------
(* Statistics Aggregator: outputVertices, outputEdges, outputCycles *)

\* one line of the report: its tag, its two numbers and the names it ends with
Line(tag, a, b, name) == [tag |-> tag, a |-> a, b |-> b, name |-> name]

\* the positions <<c, k>> of the walks with verdict f
positions(pp, fr, f) ==
    {ck \in UNION {{<<c, k>> : k \in 1..Len(pp[c])} : c \in 1..Len(pp)} : fr[ck[1]] = f}

\* a tally map read at a key: a missing key reads as 0
count(tally, key) == IF key \in DOMAIN tally THEN tally[key] ELSE 0

\* fVerts (f = TRUE) and nfVerts (f = FALSE) after the tally loop
vertTally(pp, fr, f) ==
    LET pos == positions(pp, fr, f)
        at == [ck \in pos |-> pp[ck[1]][ck[2]]]
    IN  [v \in Range(at) |-> Cardinality({ck \in pos : at[ck] = v})]

\* "if t > nfVerts[v]"
fvReported(t, nf) == t > nf

\* a tie reported in neither category
nfvReportedStrict(t, f) == t > f

\* "if t >= fVerts[v]"
nfvReported(t, f) == t >= f

outputVertices(gr, pp, fr) ==
    LET fVerts  == vertTally(pp, fr, TRUE)
        nfVerts == vertTally(pp, fr, FALSE)
        fv  == {Line("FV", fVerts[v], fVerts[v] - count(nfVerts, v), <<v>>)
                : v \in {x \in DOMAIN fVerts : fvReported(fVerts[x], count(nfVerts, x))}}
        nfv == {Line("NFV", nfVerts[v], nfVerts[v] - count(fVerts, v), <<v>>)
                : v \in {x \in DOMAIN nfVerts : nfvReported(nfVerts[x], count(fVerts, x))}}
    IN  SetToBag(fv \cup nfv
                 \cup {Line("#FV", Cardinality(fv), Cardinality(DOMAIN gr.Vs), <<>>)})

\* the edge e of step k of a walk, as outputEdges forms it
walkEdge(p, k) ==
    LET v1 == p[k]
        v2 == p[(k % Len(p)) + 1]
    IN  IF v1 > v2 THEN <<v2, v1>> ELSE <<v1, v2>>

\* fEdges (f = TRUE) and nfEdges (f = FALSE) after the tally loop
edgeTally(pp, fr, f) ==
    LET pos == positions(pp, fr, f)
        at == [ck \in pos |-> walkEdge(pp[ck[1]], ck[2])]
    IN  [e \in Range(at) |-> Cardinality({ck \in pos : at[ck] = e})]

\* "if t > nfEdges[e]"
feReported(t, nf) == t > nf

\* "if t >= fEdges[e]"
nfeReported(t, f) == t >= f

outputEdges(gr, pp, fr) ==
    LET fEdges  == edgeTally(pp, fr, TRUE)
        nfEdges == edgeTally(pp, fr, FALSE)
        fe  == {Line("FE", fEdges[e], fEdges[e] - count(nfEdges, e), e)
                : e \in {x \in DOMAIN fEdges : feReported(fEdges[x], count(nfEdges, x))}}
        nfe == {Line("NFE", nfEdges[e], nfEdges[e] - count(fEdges, e), e)
                : e \in {x \in DOMAIN nfEdges : nfeReported(nfEdges[x], count(fEdges, x))}}
    IN  SetToBag(fe \cup nfe
                 \cup {Line("#FE", Cardinality(fe), Cardinality(DOMAIN gr.Es), <<>>)})

RECURSIVE cycleLines(_, _, _)
\* the FC and NFC lines of the first k walks
cycleLines(pp, fr, k) ==
    IF k = 0 THEN EmptyBag
    ELSE cycleLines(pp, fr, k - 1)
         (+) SetToBag({Line(IF fr[k] THEN "FC" ELSE "NFC", 0, 0, pp[k])})

outputCycles(gr, pp, fr) ==
    cycleLines(pp, fr, Len(pp))
    (+) SetToBag({Line("#FC", Cardinality({k \in 1..Len(pp) : fr[k]}), Len(pp), <<>>)})

\* the three calls that end OutputResults
report(gr, pp, fr) ==
    (outputVertices(gr, pp, fr) (+) outputEdges(gr, pp, fr)) (+) outputCycles(gr, pp, fr)

\* the number of lines of the bag b that carry one of the tags
linesTagged(b, tags) ==
    LET ls == {l \in BagToSet(b) : l.tag \in tags}
        sq == SetToSeq(ls)
        sum[k \in 0..Len(sq)] == IF k = 0 THEN 0 ELSE sum[k - 1] + CopiesIn(sq[k], b)
    IN  sum[Len(sq)]

----------------------------------------------------------------------------
(* main *)

\* a main without the test for an acyclic graph
acyclicNever(b) == FALSE

\* "if len(bcs) == 0"
acyclic(b) == Len(b) = 0

\* the end of spanningTree, the rest of baseCyclePaths and the pathToEdges loop
MainBasicCycles ==
    /\ pc = "spanningTree"
    /\ remaining = {}
    /\ \E bp \in baseCyclePaths(DOMAIN g.Vs, tEdges, ntEdges) :
        /\ bPath' = bp
        /\ bcs' = [k \in 1..Len(bp) |-> pathToEdges(bp[k])]
    /\ pc' = "check"
    /\ UNCHANGED <<g, allCycs, remaining, vSet, tEdges, ntEdges, phi, i, s, q, r, rs,
                   move, out, notified, exitCode, cyc, es, path, frust, frustRev,
                   ps, isFrust,
                   rSlice, wj, wg>>

\* notify.Print and os.Exit(0)
MainAcyclic ==
    /\ pc = "check"
    /\ acyclic(bcs)
    /\ notified' = Append(notified, "Graph is acyclic; no frustration can exist")
    /\ exitCode' = 0
    /\ pc' = "exit"
    /\ UNCHANGED <<g, allCycs, remaining, vSet, tEdges, ntEdges, bPath, bcs, phi, i,
                   s, q, r, rs, move, out, cyc, es, path, frust, frustRev, ps,
                   isFrust,
                   rSlice, wj, wg>>

\* the #BCS line and the choice of the list to analyze
MainEmitBCS ==
    /\ pc = "check"
    /\ ~acyclic(bcs)
    /\ out' = out (+) SetToBag({Line("#BCS", Len(bcs), 0, <<>>)})
    /\ pc' = IF allCycs THEN "elementaryCycles" ELSE "OutputResults"
    /\ UNCHANGED <<g, allCycs, remaining, vSet, tEdges, ntEdges, bPath, bcs, phi, i,
                   s, q, r, rs, move, notified, exitCode, cyc, es, path, frust,
                   frustRev, ps, isFrust,
                   rSlice, wj, wg>>

\* the end of the loop of elementaryCycles, its return and the #ECS line.  The
\* list returned is s in the order of two nested range loops over sets.
ECReturn ==
    /\ pc = "ecLoop"
    /\ i >= Len(phi)
    /\ out' = out (+) SetToBag({Line("#ECS", Cardinality(s), 0, <<>>)})
    /\ pc' = "OutputResults"
    /\ UNCHANGED <<g, allCycs, remaining, vSet, tEdges, ntEdges, bPath, bcs, phi, i,
                   s, q, r, rs, move, notified, exitCode, cyc, es, path, frust,
                   frustRev, ps, isFrust,
                   rSlice, wj, wg>>

\* what edgesToPath can return for each list of ecs: for a list that came out
\* of a set, its result on every listing of the set
decodings ==
    IF allCycs
    THEN LET cs == SetToSeq(s)
         IN  [k \in 1..Len(cs) |-> {edgesToPath(l) : l \in Perms(cs[k])}]
    ELSE [k \in 1..Len(bcs) |-> {edgesToPath(bcs[k])}]

\* OutputResults: decode and classify every cycle, then report
MainReport ==
    /\ pc = "OutputResults"
    /\ \E res \in Product(decodings) :
        IF \E k \in 1..Len(res) : res[k].panic
        THEN /\ pc' = "panic"
             /\ exitCode' = 2
             /\ UNCHANGED out
        ELSE LET pp == [k \in 1..Len(res) |-> res[k].p]
                 fr == [k \in 1..Len(res) |-> isFrustrated(g, pp[k])]
             IN  /\ out' = out (+) report(g, pp, fr)
                 /\ pc' = "done"
                 /\ exitCode' = 0
    /\ UNCHANGED <<g, allCycs, remaining, vSet, tEdges, ntEdges, bPath, bcs, phi, i,
                   s, q, r, rs, move, notified, cyc, es, path, frust, frustRev, ps,
                   isFrust,
                   rSlice, wj, wg>>

----------------------------------------------------------------------------
(* Calls of the single functions *)

CallPathToEdges ==
    /\ pc = "pathToEdges"
    /\ es' = pathToEdges(cyc)
    /\ pc' = "edgesToPath"
    /\ UNCHANGED <<g, allCycs, remaining, vSet, tEdges, ntEdges, bPath, bcs, phi, i,
                   s, q, r, rs, move, out, notified, exitCode, cyc, path, frust,
                   frustRev, ps, isFrust,
                   rSlice, wj, wg>>

CallEdgesToPath ==
    /\ pc = "edgesToPath"
    /\ LET res == edgesToPath(es)
       IN  /\ path' = res.p
           /\ pc' = IF res.panic THEN "panic" ELSE "decoded"
    /\ UNCHANGED <<g, allCycs, remaining, vSet, tEdges, ntEdges, bPath, bcs, phi, i,
                   s, q, r, rs, move, out, notified, exitCode, cyc, es, frust,
                   frustRev, ps, isFrust,
                   rSlice, wj, wg>>

CallIsFrustrated ==
    /\ pc = "isFrustrated"
    /\ frust' = isFrustrated(g, path)
    /\ frustRev' = isFrustrated(g, Reverse(path))
    /\ pc' = "classified"
    /\ UNCHANGED <<g, allCycs, remaining, vSet, tEdges, ntEdges, bPath, bcs, phi, i,
                   s, q, r, rs, move, out, notified, exitCode, cyc, es, path, ps,
                   isFrust,
                   rSlice, wj, wg>>

CallOutputVertices ==
    /\ pc = "outputVertices"
    /\ out' = out (+) outputVertices(g, ps, isFrust)
    /\ pc' = "tallied"
    /\ UNCHANGED <<g, allCycs, remaining, vSet, tEdges, ntEdges, bPath, bcs, phi, i,
                   s, q, r, rs, move, notified, exitCode, cyc, es, path, frust,
                   frustRev, ps, isFrust,
                   rSlice, wj, wg>>

----------------------------------------------------------------------------
(* Specifications *)

\* the values of the variables a specification does not use
Idle(used) ==
    /\ IF "run" \in used THEN TRUE
       ELSE /\ allCycs = FALSE
            /\ remaining = {}
            /\ vSet = <<>>
            /\ tEdges = {}
            /\ ntEdges = <<>>
    /\ bPath = <<>>
    /\ bcs = <<>>
    /\ phi = <<>>
    /\ i = 0
    /\ s = {}
    /\ q = {}
    /\ r = {}
    /\ rs = {}
    /\ move = {}
    /\ out = EmptyBag
    /\ notified = <<>>
    /\ exitCode = -1
    /\ IF "codec" \in used THEN TRUE ELSE cyc = <<>> /\ es = <<>>
    /\ IF "path" \in used THEN TRUE ELSE path = <<>>
    /\ frust = FALSE
    /\ frustRev = FALSE
    /\ IF "tally" \in used THEN TRUE ELSE ps = <<>> /\ isFrust = <<>>
    /\ rSlice = <<>>
    /\ wj = <<>>
    /\ wg = 0

\* a run of main on the graph of n vertices and the edges E of weight w
Start(n, E, w, all) ==
    /\ pc = "spanningTree"
    /\ g = MkGraph(n, E, w)
    /\ allCycs = all
    /\ remaining = E
    /\ vSet = [v \in 1..n |-> v]
    /\ tEdges = {}
    /\ ntEdges = <<>>
    /\ Idle({"run"})

\* main on a graph of at most RunVertices vertices and RunMaxEdges edges, all
\* of weight -1 or all of weight 1, with and without --all-cycles
Init ==
    \E n \in 0..RunVertices : \E E \in EdgeSets(n, RunMaxEdges) :
        \E w \in {-1, 1} : \E all \in BOOLEAN : Start(n, E, w, all)

Next ==
    \/ SpanningTreeStep
    \/ MainBasicCycles
    \/ MainAcyclic
    \/ MainEmitBCS
    \/ ECInit
    \/ ECDiff
    \/ ECPrune
    \/ ECCopy
    \/ ECReturn
    \/ MainReport

Spec == Init /\ [][Next]_vars

\* main with --all-cycles up to the return of elementaryCycles, on a graph of
\* at most MaxEdges edges
InitCycles ==
    \E n \in 0..NumVertices : \E E \in EdgeSets(n, MaxEdges) : Start(n, E, -1, TRUE)

NextCycles ==
    \/ SpanningTreeStep
    \/ MainBasicCycles
    \/ MainAcyclic
    \/ MainEmitBCS
    \/ ECInit
    \/ ECDiff
    \/ ECPrune
    \/ ECCopy
    \/ ECReturn

SpecCycles == InitCycles /\ [][NextCycles]_vars

\* the walks of the simple cycles over the names 1..n: no vertex twice, three
\* or more vertices
SimplePaths(n) ==
    UNION {Perms(V) : V \in {X \in SUBSET (1..n) : Cardinality(X) >= 3}}

\* pathToEdges and then edgesToPath on a simple cycle
InitCodec ==
    /\ pc = "pathToEdges"
    /\ g = MkGraph(0, {}, -1)
    /\ cyc \in SimplePaths(NumVertices)
    /\ es = <<>>
    /\ path = <<>>
    /\ Idle({"codec", "path"})

NextCodec ==
    \/ CallPathToEdges
    \/ CallEdgesToPath

SpecCodec == InitCodec /\ [][NextCodec]_vars

VertexWeights == {-2, 0, 2}

EdgeWeights == {-1, 0, 1, 2}

\* isFrustrated on a cycle of a weighted graph, in both directions
InitClassify ==
    /\ pc = "isFrustrated"
    /\ \E n \in 3..MaxPathLen :
        /\ path \in Perms(1..n)
        /\ \E vw \in [1..n -> VertexWeights] :
            \E ew \in [Range(pathToEdges(path)) -> EdgeWeights] :
                g = [Vs |-> vw, Es |-> ew]
    /\ Idle({"path"})

NextClassify == CallIsFrustrated

SpecClassify == InitClassify /\ [][NextClassify]_vars

\* the walks edgesToPath returns for the simple cycles over 1..n: they start
\* at the smallest vertex
DecodedPaths(n) == {p \in SimplePaths(n) : p[1] = Min(Range(p))}

\* the walks of the cycles of the complete graph on 1..4
TallyPaths == DecodedPaths(4)

\* outputVertices on up to MaxCycles different cycles of the complete graph
\* on 1..4, with any verdicts
InitTally ==
    /\ pc = "outputVertices"
    /\ g = MkGraph(4, AllPairs(4), -1)
    /\ \E n \in 1..MaxCycles :
        /\ ps \in {pp \in [1..n -> TallyPaths] :
                    \A a \in 1..n : \A b \in 1..n :
                        a # b => Range(pathToEdges(pp[a])) # Range(pathToEdges(pp[b]))}
        /\ isFrust \in [1..n -> BOOLEAN]
    /\ Idle({"tally"})

NextTally == CallOutputVertices

SpecTally == InitTally /\ [][NextTally]_vars

\* the listings, in every order, of the sets of 1 to m edges over 1..n
EdgeLists(n, m) ==
    UNION {Perms(E) : E \in {X \in SUBSET AllPairs(n) :
                                Cardinality(X) >= 1 /\ Cardinality(X) <= m}}

\* edgesToPath on an edge set of any shape, listed in any order
InitDecode ==
    /\ pc = "edgesToPath"
    /\ g = MkGraph(0, {}, -1)
    /\ cyc = <<>>
    /\ es \in EdgeLists(DecodeVertices, MaxListLen)
    /\ path = <<>>
    /\ Idle({"codec", "path"})

NextDecode == CallEdgesToPath

SpecDecode == InitDecode /\ [][NextDecode]_vars

\* the graphs of five vertices and seven edges: with fewer no round of the
\* pruning finds a superset
PruneGraphs == {E \in EdgeSets(5, 7) : Cardinality(E) = 7}

\* elementaryCycles with its pruning goroutines taken one step at a time
InitPrune == \E E \in PruneGraphs : Start(5, E, -1, TRUE)

NextPrune ==
    \/ SpanningTreeStep
    \/ MainBasicCycles
    \/ MainEmitBCS
    \/ ECInit
    \/ ECDiff
    \/ ECFork
    \/ Worker
    \/ ECWait
    \/ ECCopy
    \/ ECReturn

SpecPrune == InitPrune /\ [][NextPrune]_vars

----------------------------------------------------------------------------
(* Graph notions the properties are stated with *)

RECURSIVE ReachVia(_, _)
\* the vertices joined to a vertex of S by edges of E
ReachVia(E, S) ==
    LET T == S \cup {e[2] : e \in {x \in E : x[1] \in S}}
               \cup {e[1] : e \in {x \in E : x[2] \in S}}
    IN  IF T = S THEN S ELSE ReachVia(E, T)

Components(V, E) == Cardinality({ReachVia(E, {v}) : v \in V})

CyclomaticNumber(gr) ==
    Cardinality(DOMAIN gr.Es) - Cardinality(DOMAIN gr.Vs)
        + Components(DOMAIN gr.Vs, DOMAIN gr.Es)

\* c is the edge set of one simple loop: every vertex it touches has degree
\* two in it and it is connected
IsSimpleLoop(c) ==
    /\ c # {}
    /\ \A v \in VerticesOf(c) : Degree(c, v) = 2
    /\ \A v \in VerticesOf(c) : ReachVia(c, {v}) = VerticesOf(c)

SimpleCycles(E) == {c \in SUBSET E : IsSimpleLoop(c)}

Returned == pc = "OutputResults" /\ allCycs

----------------------------------------------------------------------------
(* Properties *)

\* C1: once spanningTree has ranged over every edge, in whatever order, the
\* number of non-tree edges, and then the number of basic cycles returned by
\* baseCyclePaths, is |E| - |V| + the number of connected components.
C1_BasicCycleCount ==
    /\ (pc = "spanningTree" /\ remaining = {}) => Len(ntEdges) = CyclomaticNumber(g)
    /\ pc # "spanningTree" =>
        Len(ntEdges) = CyclomaticNumber(g) /\ Len(bPath) = CyclomaticNumber(g)

\* a graph of several components, one of them with two basic cycles
C1_Witness ==
    /\ pc = "check"
    /\ Components(DOMAIN g.Vs, DOMAIN g.Es) >= 2
    /\ Len(bPath) >= 2
    /\ Len(bPath) = CyclomaticNumber(g)

\* C2: the list elementaryCycles returns for the basic cycles of the graph
\* holds every simple cycle of the graph.
C2_AllSimpleCycles ==
    Returned => SimpleCycles(DOMAIN g.Es) \subseteq s

\* three basic cycles, and more simple cycles than basic ones
C2_Witness ==
    /\ Returned
    /\ Len(phi) >= 3
    /\ Cardinality(SimpleCycles(DOMAIN g.Es)) > Len(phi)
    /\ SimpleCycles(DOMAIN g.Es) \subseteq s

\* C3: every edge set elementaryCycles returns is one simple loop: each vertex
\* it touches has degree two in it and it is not a union of several loops.
C3_ReturnedAreSimple ==
    Returned => \A c \in s : IsSimpleLoop(c)

\* a run whose last round moved a union of loops from r to rs
C3_Witness ==
    /\ Returned
    /\ move # {}
    /\ \E c \in q \ s : ~IsSimpleLoop(c)
    /\ \A c \in s : IsSimpleLoop(c)

\* C4: after the round for phi[i] the basic cycles phi[0..i] are in s, and all
\* basic cycles are in the list returned.
C4_BasicsInResult ==
    /\ pc \in {"ecLoop", "ecPrune", "ecCopy"} => \A k \in 1..i : phi[k] \in s
    /\ Returned => \A k \in 1..Len(bcs) : Range(bcs[k]) \in s

\* a result of three basic cycles
C4_Witness ==
    /\ Returned
    /\ Len(bcs) >= 3
    /\ \A k \in 1..Len(bcs) : Range(bcs[k]) \in s


Rotate(sq, n) == [k \in 1..Len(sq) |-> sq[((k + n - 1) % Len(sq)) + 1]]

\* a and b walk the same cycle: b is a rotation of a or of a reversed
SameCycle(a, b) ==
    /\ Len(a) = Len(b)
    /\ \E n \in 0..(Len(a) - 1) : b = Rotate(a, n) \/ b = Rotate(Reverse(a), n)

\* C5: for a simple cycle c of three or more vertices, edgesToPath of
\* pathToEdges(c) returns, without failing, c up to rotation and direction.
C5_RoundTrip ==
    pc \in {"decoded", "panic"} => pc = "decoded" /\ SameCycle(cyc, path)

\* a cycle of four or more vertices that comes back rotated and reversed
C5_Witness ==
    /\ pc = "decoded"
    /\ Len(cyc) >= 4
    /\ SameCycle(cyc, path)
    /\ \A n \in 0..(Len(cyc) - 1) : path # Rotate(cyc, n)
    /\ path # Reverse(cyc)

\* C6: isFrustrated gives a cycle and the same cycle walked backwards the same
\* verdict, whatever the vertex and edge weights.
C6_DirectionIndependent ==
    pc = "classified" => frust = frustRev

\* a frustrated cycle with an edge whose external fields dominate and oppose
C6_Witness ==
    /\ pc = "classified"
    /\ frust
    /\ frustRev
    /\ \E e \in DOMAIN g.Es :
        /\ Abs(g.Vs[e[1]]) > Abs(g.Es[e]) /\ Abs(g.Vs[e[2]]) > Abs(g.Es[e])
        /\ g.Vs[e[1]] * g.Vs[e[2]] < 0

\* the edge {u, v} is antiferromagnetic as the classification rule has it
Antiferromagnetic(gr, u, v) ==
    LET cs == gr.Es[IF u < v THEN <<u, v>> ELSE <<v, u>>]
        eu == gr.Vs[u]
        ev == gr.Vs[v]
        dominated == Abs(eu) > Abs(cs) /\ Abs(ev) > Abs(cs)
    IN  \/ dominated /\ ((eu > 0 /\ ev < 0) \/ (eu < 0 /\ ev > 0))
        \/ ~dominated /\ cs > 0

\* the consecutive pairs of the walk p, the wraparound pair included
Pairs(p) == {<<p[k], p[(k % Len(p)) + 1]>> : k \in 1..Len(p)}

\* the triangle 1-2-3 without external fields and with the given couplers
Triangle(w12, w23, w13) ==
    /\ DOMAIN g.Vs = {1, 2, 3}
    /\ \A v \in DOMAIN g.Vs : g.Vs[v] = 0
    /\ SameCycle(path, <<1, 2, 3>>)
    /\ g.Es[<<1, 2>>] = w12 /\ g.Es[<<2, 3>>] = w23 /\ g.Es[<<1, 3>>] = w13

\* C7: isFrustrated(c) is true exactly if the number of antiferromagnetic
\* edges along c is odd; the triangle with couplers -1, -1, +1 and no fields
\* is frustrated, the one with couplers -1, -1, -1 is not.
C7_OddAntiferromagnetic ==
    pc = "classified" =>
        /\ frust = (Cardinality({uv \in Pairs(path) :
                        Antiferromagnetic(g, uv[1], uv[2])}) % 2 = 1)
        /\ Triangle(-1, -1, 1) => frust
        /\ Triangle(-1, -1, -1) => ~frust

\* a frustrated cycle with one edge ruled by opposing fields and one edge
\* whose coupler ties with a field
C7_Witness ==
    /\ pc = "classified"
    /\ frust
    /\ \E uv \in Pairs(path) :
        /\ Abs(g.Vs[uv[1]]) > Abs(g.Es[Edge(uv[1], uv[2])])
        /\ Abs(g.Vs[uv[2]]) > Abs(g.Es[Edge(uv[1], uv[2])])
        /\ Antiferromagnetic(g, uv[1], uv[2])
    /\ \E uv \in Pairs(path) :
        /\ Abs(g.Vs[uv[1]]) = Abs(g.Es[Edge(uv[1], uv[2])])
        /\ Abs(g.Vs[uv[2]]) = Abs(g.Es[Edge(uv[1], uv[2])])
        /\ Antiferromagnetic(g, uv[1], uv[2])

\* the analyzed cycles that contain v
CyclesWith(v) == {c \in 1..Len(ps) : v \in Range(ps[c])}

\* the FV and NFV lines written for v
VertexLines(v) == {l \in BagToSet(out) : l.tag \in {"FV", "NFV"} /\ l.name = <<v>>}

IsForest(gr) == CyclomaticNumber(gr) = 0

StatTags == {"FV", "NFV", "#FV", "FE", "NFE", "#FE", "FC", "NFC", "#FC"}

Terminated == pc \in {"exit", "done", "panic"}

C10_BCSLineOnce ==
    pc \in {"exit", "done"} =>
        /\ linesTagged(out, {"#BCS"}) = 1
        /\ \E l \in BagToSet(out) : l.tag = "#BCS" /\ l.a = Len(bcs)

\* C11: edgesToPath, handed an edge set that is not one simple loop (a vertex
\* of degree other than two, or several loops), fails instead of returning a
\* path.  Any failure counts here, the index-out-of-range panic included.
C11_NonSimpleFails ==
    (pc \in {"decoded", "panic"} /\ ~IsSimpleLoop(Range(es))) => pc = "panic"

\* the basic cycle bPath[k] is the tree path between the ends of the k-th
\* non-tree edge, and bcs[k] is that path's edges and the non-tree edge
TreePathOf(k) ==
    LET p == bPath[k]
        e == ntEdges[k]
    IN  /\ Len(p) >= 3
        /\ p[1] = e[1] /\ p[Len(p)] = e[2]
        /\ \A a \in 1..Len(p) : \A b \in 1..Len(p) : a # b => p[a] # p[b]
        /\ \A j \in 1..(Len(p) - 1) : Edge(p[j], p[j + 1]) \in tEdges
        /\ Range(bcs[k]) = {Edge(p[j], p[j + 1]) : j \in 1..(Len(p) - 1)} \cup {e}

\* C12: baseCyclePaths returns one cycle per non-tree edge, in the order
\* spanningTree found them; the cycle of the non-tree edge (u, v) is a walk of
\* three or more different vertices from u to v along tree edges, so that its
\* edge set is that tree path and the edge (u, v).
C12_TreePathPlusEdge ==
    pc # "spanningTree" =>
        /\ Len(bPath) = Len(ntEdges)
        /\ Len(bcs) = Len(ntEdges)
        /\ \A k \in 1..Len(ntEdges) : TreePathOf(k)

\* two basic cycles, one of them over four or more vertices
C12_Witness ==
    /\ pc = "check"
    /\ Len(ntEdges) >= 2
    /\ Len(bPath) = Len(ntEdges)
    /\ \E k \in 1..Len(bPath) : Len(bPath[k]) >= 4
    /\ \A k \in 1..Len(ntEdges) : TreePathOf(k)

\* the goroutines that have not yet called wg.Done()
Running == {w \in DOMAIN wj : wj[w] <= Len(rSlice) + 1}

C14_PruningAsSequential ==
    LET r0  == diffsR(q, phi[i + 1])
        rs0 == diffsRs(q, phi[i + 1])
        sup == {v \in r0 : \E u \in r0 : IsProperSubset(u, v)}
    IN  /\ pc = "ecWait" => r = r0 /\ rs = rs0 /\ move \subseteq sup
        /\ pc = "ecCopy" => move = sup /\ r = r0 \ sup /\ rs = rs0 \cup sup
        /\ Returned => s = SimpleCycles(DOMAIN g.Es)

\* a merge that moved a set which the goroutine of its subset came to first
\* in rSlice, while the other goroutines found nothing
C14_Witness ==
    /\ pc = "ecCopy"
    /\ Len(rSlice) >= 3
    /\ rSlice[1] \in move
    /\ Cardinality(move) = 1
    /\ r = Range(rSlice) \ move
    /\ move \subseteq rs

\* the walk p from the same vertex in the other direction
Mirror(p) == IF p = <<>> THEN p ELSE <<Head(p)>> \o Reverse(Tail(p))

\* es lists the edges of one simple loop and edgesToPath has returned
DecodedLoop == pc \in {"decoded", "panic"} /\ IsSimpleLoop(Range(es))

\* C15 as stated: for the edges of a simple loop, the path edgesToPath returns
\* depends on the edge set only, not on the order in which the list names the
\* edges.
C15_OrderIndependent ==
    DecodedLoop => \A l \in Perms(Range(es)) : edgesToPath(l) = edgesToPath(es)

\* C15 as the code has it: for the edges of a simple loop edgesToPath returns
\* a path that starts at the smallest vertex and goes on to the neighbor of
\* it that the list names first; every other listing of the same edges gives
\* this path or the same path walked in the other direction.
C15_StartAtMinUpToDirection ==
    DecodedLoop =>
        /\ pc = "decoded"
        /\ path[1] = Min(VerticesOf(Range(es)))
        /\ path[2] = abutsOf(es, path[1])[1]
        /\ SameCycle(path, edgesToPath(SetToSeq(Range(es))).p)
        /\ \A l \in Perms(Range(es)) :
            /\ ~edgesToPath(l).panic
            /\ edgesToPath(l).p \in {path, Mirror(path)}

\* a loop of four vertices whose edges, listed in another order, come back as
\* the walk in the other direction
C15_Witness ==
    /\ pc = "decoded"
    /\ IsSimpleLoop(Range(es))
    /\ Len(path) = 4
    /\ path[1] = 1
    /\ \E l \in Perms(Range(es)) :
        edgesToPath(l).p = Mirror(path) /\ Mirror(path) # path

====
